---- MODULE Spec2Model ----
(***************************************************************************)
(* Model of run-analyze.py: the chunked scan-and-classify pass over a      *)
(* binary file (find_date_patterns, analyze_chunk, analyze_binary_file).   *)
(*                                                                         *)
(* Bytes are integers 0..255 and a bytes object is a sequence of them;     *)
(* Python index j is TLA+ index j+1.  A 32-bit unsigned value is kept as   *)
(* its two 16-bit halves [hi, lo] so that no intermediate value leaves the *)
(* range of the model checker's integers.                                  *)
(***************************************************************************)
EXTENDS Integers, Sequences, FiniteSets, Bags, TLC

VARIABLES
    file,             \* content of the file at filepath
    chunk_size,       \* analyze_binary_file's chunk_size argument
    platform,         \* local UTC offset and width of time_t of the host
    pc,               \* position of the walker / of the function under call
    f_pos,            \* position of the file object f
    first_chunk,      \* analyze_binary_file: first_chunk
    current_offset,   \* analyze_binary_file: current_offset
    chunks_processed, \* analyze_binary_file: chunks_processed
    chunk,            \* analyze_binary_file: chunk (last chunk read)
    chunk_base,       \* base_offset passed to analyze_chunk for that chunk
    chunk_stats,      \* analyze_binary_file: chunk_stats
    stats,            \* analyze_binary_file: stats
    data,             \* find_date_patterns: data
    offset,           \* find_date_patterns: offset
    potential_dates   \* find_date_patterns: returned list

vars == <<file, chunk_size, platform, pc, f_pos, first_chunk, current_offset,
          chunks_processed, chunk, chunk_base, chunk_stats, stats,
          data, offset, potential_dates>>

----------------------------------------------------------------------------
(* Bounds of the model *)

MaxFileSegs == 5
MaxChunkSize == 18
MaxChunkLen == 10
MaxWalkSegs == 3
MaxWalkChunk == 9
MaxDatePad == 2

----------------------------------------------------------------------------
(* Python primitives *)

Min(a, b) == IF a < b THEN a ELSE b

\* data[a:b] for 0 <= a
Slice(s, a, b) == SubSeq(s, a + 1, Min(b, Len(s)))

\* list(range(start, stop, step)) for step > 0
Range(start, stop, step) ==
    [k \in 1..(IF stop > start THEN (stop - start + step - 1) \div step ELSE 0)
        |-> start + (k - 1) * step]

\* struct.unpack('<H', b)[0] on a 2-byte slice
unpack_H(b) == b[1] + 256 * b[2]

\* struct.unpack('<I', b)[0] on a 4-byte slice, as 16-bit halves
unpack_I(b) == [lo |-> b[1] + 256 * b[2], hi |-> b[3] + 256 * b[4]]

\* struct.pack('<H', v)
pack_H(v) == <<v % 256, (v \div 256) % 256>>

\* bytes.isalnum(): non-empty and every byte an ASCII letter or digit
IsAlnumByte(b) == \/ (48 <= b /\ b <= 57)
                  \/ (65 <= b /\ b <= 90)
                  \/ (97 <= b /\ b <= 122)

isalnum(b) == Len(b) > 0 /\ \A k \in 1..Len(b) : IsAlnumByte(b[k])

\* datetime.fromtimestamp(ts): the local calendar date and time of ts
\* seconds after 1970-01-01T00:00:00Z, for a host tz seconds east of UTC
\* (tz a multiple of 4); <<year, month, day, hour, minute, second>>
fromtimestamp(ts, tz) ==
    LET q    == ts.hi * 16384 + (ts.lo \div 4) + (tz \div 4)  \* (ts + tz) div 4
        days == q \div 21600
        sod  == (q % 21600) * 4 + (ts.lo % 4)
        z    == days + 719468
        era  == z \div 146097
        doe  == z - era * 146097
        yoe  == (doe - (doe \div 1460) + (doe \div 36524) - (doe \div 146096)) \div 365
        doy  == doe - (365 * yoe + (yoe \div 4) - (yoe \div 100))
        mp   == (5 * doy + 2) \div 153
        d    == doy - ((153 * mp + 2) \div 5) + 1
        m    == IF mp < 10 THEN mp + 3 ELSE mp - 9
        y    == yoe + era * 400 + (IF m <= 2 THEN 1 ELSE 0)
    IN  <<y, m, d, sod \div 3600, (sod \div 60) % 60, sod % 60>>

\* datetime.fromtimestamp raises when ts does not fit the host's time_t
TimestampRaises(ts, host) == host.time_t_bits = 32 /\ ts.hi >= 32768

----------------------------------------------------------------------------
(* find_date_patterns *)

\* 0 < unix_timestamp < 0xFFFFFFFF
TimestampInRange(ts) == (ts.hi > 0 \/ ts.lo > 0) /\ ~(ts.hi = 65535 /\ ts.lo = 65535)

DateYearInRange_2000(y) == 1900 < y /\ y < 2000

\* 1900 < date.year < 2100
DateYearInRange(y) == 1900 < y /\ y < 2100

YearInRange_inclusive(year) == 1800 <= year /\ year <= 2100

\* 1800 < year < 2100
YearInRange(year) == 1800 < year /\ year < 2100

find_date_patterns(d, off, host) ==
    LET ts   == unpack_I(Slice(d, off, off + 4))
        date == fromtimestamp(ts, host.tz)
        unix == IF /\ Len(d) >= off + 4
                   /\ TimestampInRange(ts)
                   /\ ~TimestampRaises(ts, host)
                   /\ DateYearInRange(date[1])
                THEN << <<off, [kind |-> "Possible Unix timestamp", value |-> date]>> >>
                ELSE << >>
        year == unpack_H(Slice(d, off, off + 2))
        yr   == IF Len(d) >= off + 2 /\ YearInRange(year)
                THEN << <<off, [kind |-> "Possible year", value |-> <<year>>]>> >>
                ELSE << >>
    IN  unix \o yr

----------------------------------------------------------------------------
(* analyze_chunk *)

\* range(0, len(data)-8, 4): the positions find_date_patterns is called at
DateScanPositions_tail4(L) == Range(0, L - 4, 4)

DateScanPositions(L) == Range(0, L - 8, 4)

\* chunk_stats['date_patterns'] after the first loop
RECURSIVE DateScan(_, _, _, _, _)
DateScan(d, base_offset, host, positions, k) ==
    IF k > Len(positions) THEN << >>
    ELSE LET dates == find_date_patterns(d, positions[k], host)
         IN  [j \in 1..Len(dates) |-> <<base_offset + dates[j][1], dates[j][2]>>]
             \o DateScan(d, base_offset, host, positions, k + 1)

\* range(len(data) - 8): the positions tested for a record start
RecordScanPositions(L) == Range(0, L - 8, 1)

IsRecordStart_2zeros(d, i) ==
    /\ Slice(d, i, i + 2) = <<0, 0>>
    /\ isalnum(Slice(d, i + 4, i + 8))

\* data[i:i+4] == b'\x00\x00\x00\x00' and data[i+4:i+8].isalnum()
IsRecordStart(d, i) ==
    /\ Slice(d, i, i + 4) = <<0, 0, 0, 0>>
    /\ isalnum(Slice(d, i + 4, i + 8))

\* chunk_stats['record_starts'] after the second loop
RecordScan(d, base_offset) ==
    LET positions == RecordScanPositions(Len(d))
        hits      == SelectSeq(positions, LAMBDA i : IsRecordStart(d, i))
    IN  [j \in 1..Len(hits) |-> base_offset + hits[j]]

\* 32 <= byte <= 126 or byte in (9, 10, 13)
Qualifies(byte) == (32 <= byte /\ byte <= 126) \/ byte \in {9, 10, 13}

RunLongEnough_ge4(n) == n >= 4

\* len(text_region) > 4
RunLongEnough(n) == n > 4

\* the entry appended to chunk_stats['text_regions'] for a finished run
TextRegion(text_region, base_offset) ==
    [offset |-> base_offset + text_region[1][1],
     length |-> Len(text_region),
     text   |-> [j \in 1..Len(text_region) |-> text_region[j][2]]]

TextScanEnd_flush(text_region, regions, base_offset) ==
    IF RunLongEnough(Len(text_region))
    THEN Append(regions, TextRegion(text_region, base_offset))
    ELSE regions

\* the loop over data ends: text_region is left as it is, nothing is appended
TextScanEnd(text_region, regions, base_offset) == regions

\* chunk_stats['text_regions'] after the third loop, from byte k on
RECURSIVE TextScan(_, _, _, _, _)
TextScan(d, base_offset, k, text_region, regions) ==
    IF k > Len(d) THEN TextScanEnd(text_region, regions, base_offset)
    ELSE LET byte        == d[k]
             current_pos == k - 1
         IN  IF Qualifies(byte)
             THEN TextScan(d, base_offset, k + 1,
                           Append(text_region, <<current_pos, byte>>), regions)
             ELSE IF text_region # << >>
             THEN TextScan(d, base_offset, k + 1, << >>,
                           IF RunLongEnough(Len(text_region))
                           THEN Append(regions, TextRegion(text_region, base_offset))
                           ELSE regions)
             ELSE TextScan(d, base_offset, k + 1, text_region, regions)

analyze_chunk_relative(d, base_offset, host) ==
    [date_patterns |-> DateScan(d, 0, host, DateScanPositions(Len(d)), 1),
     record_starts |-> RecordScan(d, 0),
     text_regions  |-> TextScan(d, 0, 1, << >>, << >>)]

analyze_chunk(d, base_offset, host) ==
    [date_patterns |-> DateScan(d, base_offset, host, DateScanPositions(Len(d)), 1),
     record_starts |-> RecordScan(d, base_offset),
     text_regions  |-> TextScan(d, base_offset, 1, << >>, << >>)]

----------------------------------------------------------------------------
(* analyze_binary_file *)

\* f.read(n) at position pos
Read(f, pos, n) == Slice(f, pos, pos + n)

SeekStart_missing(pos) == pos

\* f.seek(0): the position of f after the header dump
SeekStart(pos) == 0

record_distances_short(record_starts) ==
    [i \in 1..(Len(record_starts) - 2) |-> record_starts[i + 1] - record_starts[i]]

\* [record_starts[i+1] - record_starts[i] for i in range(len(record_starts)-1)]
record_distances(record_starts) ==
    [i \in 1..(Len(record_starts) - 1) |-> record_starts[i + 1] - record_starts[i]]

\* Counter(iterable)
Counter(s) ==
    [v \in {s[i] : i \in DOMAIN s} |-> Cardinality({i \in DOMAIN s : s[i] = v})]

\* stats after the merge of one chunk's statistics
MergeStats(st, cs) ==
    [file_size     |-> st.file_size,
     date_patterns |-> st.date_patterns \o cs.date_patterns,
     record_starts |-> st.record_starts \o cs.record_starts,
     text_regions  |-> st.text_regions \o cs.text_regions,
     record_sizes  |-> IF Len(cs.record_starts) > 1
                       THEN st.record_sizes (+) Counter(record_distances(cs.record_starts))
                       ELSE st.record_sizes]

EmptyChunkStats == [date_patterns |-> << >>, record_starts |-> << >>, text_regions |-> << >>]

----------------------------------------------------------------------------
(* Inputs *)

Sig   == <<0, 0, 0, 0, 65, 66, 67, 68>>    \* 00 00 00 00 'A' 'B' 'C' 'D'
Epoch == <<128, 67, 109, 56>>              \* 946684800, little-endian
Hello == <<104, 101, 108, 108, 111>>       \* "hello"

FileLib == {Sig, Epoch, Hello, <<0>>}

RECURSIVE Concats(_, _)
Concats(lib, n) ==
    IF n = 0 THEN {<< >>}
    ELSE LET P == Concats(lib, n - 1) IN P \cup {p \o s : p \in P, s \in lib}

Files == Concats(FileLib, MaxFileSegs)

Platforms == {[tz |-> -43200, time_t_bits |-> 64], [tz |-> 50400, time_t_bits |-> 32]}

----------------------------------------------------------------------------
(* The walker *)

Init ==
    /\ file \in Files
    /\ chunk_size \in 1..MaxChunkSize
    /\ platform \in Platforms
    /\ pc = "HEADER_DUMP"
    /\ f_pos = 0
    /\ first_chunk = << >>
    /\ current_offset = 0
    /\ chunks_processed = 0
    /\ chunk = << >>
    /\ chunk_base = 0
    /\ chunk_stats = EmptyChunkStats
    /\ stats = [file_size |-> Len(file), date_patterns |-> << >>,
                record_starts |-> << >>, text_regions |-> << >>,
                record_sizes |-> EmptyBag]
    /\ data = << >>
    /\ offset = 0
    /\ potential_dates = << >>

\* lines 92-107: read the first chunk for the dump, rewind, start the loop
HeaderDump ==
    /\ pc = "HEADER_DUMP"
    /\ first_chunk' = Read(file, f_pos, Min(chunk_size, stats.file_size))
    /\ f_pos' = SeekStart(f_pos + Len(first_chunk'))
    /\ current_offset' = 0
    /\ chunks_processed' = 0
    /\ pc' = "SCANNING"
    /\ UNCHANGED <<file, chunk_size, platform, chunk, chunk_base, chunk_stats,
                   stats, data, offset, potential_dates>>

\* lines 109-130: one iteration of the read loop
ScanChunk ==
    /\ pc = "SCANNING"
    /\ current_offset < stats.file_size
    /\ chunk' = Read(file, f_pos, chunk_size)
    /\ f_pos' = f_pos + Len(chunk')
    /\ IF chunk' = << >>
       THEN /\ pc' = "REPORTING"
            /\ UNCHANGED <<chunk_base, chunk_stats, stats, current_offset,
                           chunks_processed>>
       ELSE /\ chunk_base' = current_offset
            /\ chunk_stats' = analyze_chunk(chunk', current_offset, platform)
            /\ stats' = MergeStats(stats, chunk_stats')
            /\ current_offset' = current_offset + Len(chunk')
            /\ chunks_processed' = chunks_processed + 1
            /\ pc' = "SCANNING"
    /\ UNCHANGED <<file, chunk_size, platform, first_chunk, data, offset,
                   potential_dates>>

\* lines 109, 132-156: the loop condition fails; the report is printed
Report ==
    /\ pc = "SCANNING"
    /\ ~(current_offset < stats.file_size)
    /\ pc' = "REPORTING"
    /\ UNCHANGED <<file, chunk_size, platform, f_pos, first_chunk,
                   current_offset, chunks_processed, chunk, chunk_base,
                   chunk_stats, stats, data, offset, potential_dates>>

Next == HeaderDump \/ ScanChunk \/ Report

Spec == Init /\ [][Next]_vars

\* the walker on the shorter files, for the properties of whole runs; the
\* program is sequential and never blocks, so a step that is enabled is taken
InitWalk ==
    /\ Init
    /\ file \in Concats(FileLib, MaxWalkSegs)
    /\ chunk_size <= MaxWalkChunk

FairSpec == InitWalk /\ [][Next]_vars /\ WF_vars(Next)

----------------------------------------------------------------------------
(* analyze_chunk applied to every chunk over a small alphabet *)

ChunkBytes == {0, 32, 65}       \* NUL, ' ', 'A'

Chunks == UNION {[1..n -> ChunkBytes] : n \in 0..MaxChunkLen}

BaseOffsets == {0, 7}

InitChunk ==
    /\ chunk \in Chunks
    /\ chunk_base \in BaseOffsets
    /\ platform \in Platforms
    /\ pc = "analyze_chunk"
    /\ chunk_stats = EmptyChunkStats
    /\ file = << >>
    /\ chunk_size = 1
    /\ f_pos = 0
    /\ first_chunk = << >>
    /\ current_offset = 0
    /\ chunks_processed = 0
    /\ stats = [file_size |-> 0, date_patterns |-> << >>,
                record_starts |-> << >>, text_regions |-> << >>,
                record_sizes |-> EmptyBag]
    /\ data = << >>
    /\ offset = 0
    /\ potential_dates = << >>

\* lines 31-73: one call of analyze_chunk
AnalyzeChunk ==
    /\ pc = "analyze_chunk"
    /\ chunk_stats' = analyze_chunk(chunk, chunk_base, platform)
    /\ pc' = "returned"
    /\ UNCHANGED <<file, chunk_size, platform, f_pos, first_chunk,
                   current_offset, chunks_processed, chunk, chunk_base, stats,
                   data, offset, potential_dates>>

NextChunk == AnalyzeChunk

SpecChunk == InitChunk /\ [][NextChunk]_vars

----------------------------------------------------------------------------
(* find_date_patterns applied to values around its thresholds *)

YearValues == {0, 1799, 1800, 1801, 1850, 2099, 2100, 2101, 65535}

HighValues == {0, 1, 14445, 32767, 32768, 62598, 65535}

Pad(n) == [k \in 1..n |-> 7]

DateInputs ==
    {Pad(n) \o pack_H(y) \o t :
        n \in 0..MaxDatePad, y \in YearValues,
        t \in {<< >>, <<0>>} \cup {pack_H(h) : h \in HighValues}}

AllPlatforms == [tz : {-43200, 0, 50400}, time_t_bits : {32, 64}]

InitDate ==
    /\ data \in DateInputs
    /\ offset \in 0..(MaxDatePad + 2)
    /\ platform \in AllPlatforms
    /\ pc = "find_date_patterns"
    /\ potential_dates = << >>
    /\ file = << >>
    /\ chunk_size = 1
    /\ f_pos = 0
    /\ first_chunk = << >>
    /\ current_offset = 0
    /\ chunks_processed = 0
    /\ chunk = << >>
    /\ chunk_base = 0
    /\ chunk_stats = EmptyChunkStats
    /\ stats = [file_size |-> 0, date_patterns |-> << >>,
                record_starts |-> << >>, text_regions |-> << >>,
                record_sizes |-> EmptyBag]

\* lines 10-29: one call of find_date_patterns
FindDatePatterns ==
    /\ pc = "find_date_patterns"
    /\ potential_dates' = find_date_patterns(data, offset, platform)
    /\ pc' = "returned"
    /\ UNCHANGED <<file, chunk_size, platform, f_pos, first_chunk,
                   current_offset, chunks_processed, chunk, chunk_base,
                   chunk_stats, stats, data, offset>>

NextDate == FindDatePatterns

SpecDate == InitDate /\ [][NextDate]_vars

----------------------------------------------------------------------------
(* Properties *)

FileByte(j) == file[j + 1]      \* the byte of the file at absolute offset j

ChunkByte(j) == chunk[j + 1]    \* the byte of the chunk at relative offset j

ChunkScanned == pc = "returned" \/ (pc \in {"SCANNING", "REPORTING"} /\ chunks_processed > 0)

SignatureAt(s, j) ==
    /\ j + 8 <= Len(s)
    /\ \A k \in 1..4 : s[j + k] = 0
    /\ \A k \in 5..8 : IsAlnumByte(s[j + k])

Count(seq, v) == Cardinality({k \in DOMAIN seq : seq[k] = v})

IsUnix(f) == f[2].kind = "Possible Unix timestamp"

IsYear(f) == f[2].kind = "Possible year"

\* C1: every accumulated finding stores an absolute offset: it lies in
\* [0, file_size), the pattern it reports is found in the file at that very
\* offset, and the findings of the chunk scanned last lie at
\* base offset + a position of that chunk, the base offset being the number
\* of bytes consumed before the chunk.
C1_AbsoluteOffsets ==
    /\ \A k \in DOMAIN stats.record_starts :
          LET a == stats.record_starts[k]
          IN  0 <= a /\ a < stats.file_size /\ SignatureAt(file, a)
    /\ \A k \in DOMAIN stats.date_patterns :
          LET f == stats.date_patterns[k]
              a == f[1]
          IN  /\ 0 <= a /\ a < stats.file_size
              /\ IsUnix(f) =>
                   /\ a + 4 <= stats.file_size
                   /\ f[2].value = fromtimestamp(
                         [lo |-> FileByte(a) + 256 * FileByte(a + 1),
                          hi |-> FileByte(a + 2) + 256 * FileByte(a + 3)],
                         platform.tz)
              /\ IsYear(f) =>
                   /\ a + 2 <= stats.file_size
                   /\ f[2].value = <<FileByte(a) + 256 * FileByte(a + 1)>>
    /\ \A k \in DOMAIN stats.text_regions :
          LET r == stats.text_regions[k]
          IN  /\ 0 <= r.offset /\ r.offset < stats.file_size
              /\ r.offset + r.length <= stats.file_size
              /\ r.text = SubSeq(file, r.offset + 1, r.offset + r.length)
    /\ (pc \in {"SCANNING", "REPORTING"} /\ chunks_processed > 0) =>
          /\ chunk_base = current_offset - Len(chunk)
          /\ \A k \in DOMAIN chunk_stats.record_starts :
                chunk_stats.record_starts[k] \in chunk_base..(current_offset - 1)
          /\ \A k \in DOMAIN chunk_stats.date_patterns :
                chunk_stats.date_patterns[k][1] \in chunk_base..(current_offset - 1)
          /\ \A k \in DOMAIN chunk_stats.text_regions :
                chunk_stats.text_regions[k].offset \in chunk_base..(current_offset - 1)

\* C1 witness: findings of all three kinds were merged from a chunk that is
\* not the first one.
C1_Witness ==
    /\ chunks_processed >= 2
    /\ \E k \in DOMAIN stats.record_starts : stats.record_starts[k] >= chunk_size
    /\ \E k \in DOMAIN stats.date_patterns : stats.date_patterns[k][1] >= chunk_size
    /\ \E k \in DOMAIN stats.text_regions : stats.text_regions[k].offset >= chunk_size

\* C2: for every position o of the scanned chunk with 0 <= o <= L-8, exactly
\* one record-boundary finding is reported at base_offset + o if the signature
\* (four zero bytes, four alphanumeric bytes) is at o, and none otherwise.
C2_RecordIffUpToLMinus8 ==
    ChunkScanned =>
        \A o \in 0..(Len(chunk) - 8) :
            Count(chunk_stats.record_starts, chunk_base + o)
                = (IF SignatureAt(chunk, o) THEN 1 ELSE 0)

\* C3 as stated: the encoding of 946684800 at any offset o of the scanned
\* chunk with o + 4 <= L yields an epoch-seconds finding at base_offset + o.
C3_EpochAtAnyOffset ==
    ChunkScanned =>
        \A o \in 0..(Len(chunk) - 4) :
            SubSeq(chunk, o + 1, o + 4) = <<128, 67, 109, 56>> =>
                \E k \in DOMAIN chunk_stats.date_patterns :
                    /\ chunk_stats.date_patterns[k][1] = chunk_base + o
                    /\ IsUnix(chunk_stats.date_patterns[k])

\* C3 amended: the encoding of 946684800 at an offset o of the scanned chunk
\* that is a multiple of 4 and smaller than L - 8 yields an epoch-seconds
\* finding at base_offset + o.
C3_EpochAtScannedOffset ==
    ChunkScanned =>
        \A o \in 0..(Len(chunk) - 9) :
            (o % 4 = 0 /\ SubSeq(chunk, o + 1, o + 4) = <<128, 67, 109, 56>>) =>
                \E k \in DOMAIN chunk_stats.date_patterns :
                    /\ chunk_stats.date_patterns[k][1] = chunk_base + o
                    /\ IsUnix(chunk_stats.date_patterns[k])

\* C3 witness: a chunk that is not the first one holds the encoding at a
\* scanned offset, and the finding is there.
C3_Witness ==
    /\ ChunkScanned
    /\ chunk_base > 0
    /\ \E o \in 0..(Len(chunk) - 9) :
          /\ o % 4 = 0
          /\ SubSeq(chunk, o + 1, o + 4) = <<128, 67, 109, 56>>
          /\ \E k \in DOMAIN chunk_stats.date_patterns :
                /\ chunk_stats.date_patterns[k][1] = chunk_base + o
                /\ IsUnix(chunk_stats.date_patterns[k])

YearFindings == {k \in DOMAIN potential_dates : IsYear(potential_dates[k])}

\* C4: a call of find_date_patterns with at least 2 bytes available at offset
\* returns exactly one year finding, at offset and with the value y, if the
\* 2-byte little-endian value y there satisfies 1800 < y < 2100, and no year
\* finding otherwise, whatever the epoch-seconds interpretation does.
C4_YearIffStrictlyBetween ==
    (pc = "returned" /\ Len(data) >= offset + 2) =>
        LET y == data[offset + 1] + 256 * data[offset + 2]
        IN  IF 1800 < y /\ y < 2100
            THEN /\ Cardinality(YearFindings) = 1
                 /\ \A k \in YearFindings :
                       potential_dates[k] = <<offset, [kind |-> "Possible year", value |-> <<y>>]>>
            ELSE YearFindings = {}

\* C4 witness: a call returned a year finding for 1850 next to an
\* epoch-seconds finding at the same position.
C4_Witness ==
    /\ pc = "returned"
    /\ Len(data) >= offset + 4
    /\ data[offset + 1] + 256 * data[offset + 2] = 1850
    /\ Len(potential_dates) = 2
    /\ IsUnix(potential_dates[1])
    /\ IsYear(potential_dates[2])

\* the maximal runs of qualifying bytes of the chunk that a non-qualifying
\* byte of the chunk ends, as <<first, end>> (end = offset of that byte)
ClosedRuns ==
    {r \in (0..Len(chunk)) \X (0..Len(chunk)) :
        /\ r[1] < r[2]
        /\ r[2] < Len(chunk)
        /\ \A j \in r[1]..(r[2] - 1) : Qualifies(ChunkByte(j))
        /\ ~Qualifies(ChunkByte(r[2]))
        /\ (r[1] = 0 \/ ~Qualifies(ChunkByte(r[1] - 1)))}

RunFinding(r) ==
    [offset |-> chunk_base + r[1],
     length |-> r[2] - r[1],
     text   |-> SubSeq(chunk, r[1] + 1, r[2])]

\* C5: the text-run findings of a chunk are exactly, once each, the maximal
\* runs of qualifying bytes that a non-qualifying byte of the chunk ends and
\* that are longer than 4, with offset base_offset + first byte, the length
\* of the run and its bytes as text.
C5_TextRunsExactlyClosedLongRuns ==
    pc = "returned" =>
        /\ {chunk_stats.text_regions[k] : k \in DOMAIN chunk_stats.text_regions}
              = {RunFinding(r) : r \in {q \in ClosedRuns : q[2] - q[1] > 4}}
        /\ \A j, k \in DOMAIN chunk_stats.text_regions :
              chunk_stats.text_regions[j] = chunk_stats.text_regions[k] => j = k

\* C5 witness: a chunk with a closed run of length 5, reported, and a closed
\* run of length 4 or less, not reported.
C5_Witness ==
    /\ pc = "returned"
    /\ chunk_base > 0
    /\ \E r \in ClosedRuns :
          /\ r[2] - r[1] <= 4
          /\ \A k \in DOMAIN chunk_stats.text_regions :
                chunk_stats.text_regions[k].offset # chunk_base + r[1]
    /\ \E r \in ClosedRuns :
          /\ r[2] - r[1] = 5
          /\ \E k \in DOMAIN chunk_stats.text_regions :
                chunk_stats.text_regions[k] = RunFinding(r)

ChunkOf(a) == a \div chunk_size     \* index of the chunk holding offset a

\* distances between consecutive record-boundary findings of the same chunk
SameChunkDistances ==
    LET rs    == stats.record_starts
        pairs == SelectSeq([k \in 1..(Len(rs) - 1) |-> k],
                           LAMBDA k : ChunkOf(rs[k]) = ChunkOf(rs[k + 1]))
    IN  [j \in 1..Len(pairs) |-> rs[pairs[j] + 1] - rs[pairs[j]]]

\* C6: the gap histogram is exactly the multiset of the distances between
\* consecutive record-boundary findings of the same chunk; its total is the
\* sum over the chunks of max(0, n - 1), n the findings of the chunk; no
\* distance between findings of different chunks is in it.
C6_GapsWithinChunkOnly ==
    (pc \in {"HEADER_DUMP", "SCANNING", "REPORTING"}) =>
        /\ \A v \in DOMAIN stats.record_sizes \cup {SameChunkDistances[k] : k \in DOMAIN SameChunkDistances} :
              /\ v \in DOMAIN stats.record_sizes
              /\ stats.record_sizes[v] = Count(SameChunkDistances, v)
        /\ BagCardinality(stats.record_sizes)
              = Len(stats.record_starts)
                - Cardinality({ChunkOf(stats.record_starts[k]) : k \in DOMAIN stats.record_starts})

\* C6 witness: a chunk with two findings was followed by a chunk with a
\* finding, and the histogram holds one distance.
C6_Witness ==
    /\ Len(stats.record_starts) = 3
    /\ ChunkOf(stats.record_starts[1]) = ChunkOf(stats.record_starts[2])
    /\ ChunkOf(stats.record_starts[2]) # ChunkOf(stats.record_starts[3])
    /\ BagCardinality(stats.record_sizes) = 1

\* C7: the walker leaves HEADER_DUMP once, for SCANNING; each scanning step
\* reads the next min(chunk_size, remaining) bytes of the file, in order,
\* scans them with their base offset and merges the result; REPORTING is
\* terminal, is always reached, and is reached with the running offset equal
\* to file_size.
C7_WalkerCoversFile ==
    /\ <>(pc = "REPORTING")
    /\ [](pc = "REPORTING" => current_offset = stats.file_size)
    /\ [][/\ pc # "REPORTING"
          /\ pc' # "HEADER_DUMP"
          /\ pc = "HEADER_DUMP" => (pc' = "SCANNING" /\ current_offset' = 0)
          /\ (pc = "SCANNING" /\ pc' = "SCANNING") =>
                /\ current_offset' = Min(current_offset + chunk_size, stats.file_size)
                /\ current_offset' > current_offset
                /\ chunk' = SubSeq(file, current_offset + 1, current_offset')
                /\ chunk_base' = current_offset
                /\ Len(stats'.text_regions)
                      = Len(stats.text_regions) + Len(chunk_stats'.text_regions)
                /\ Len(stats'.record_starts)
                      = Len(stats.record_starts) + Len(chunk_stats'.record_starts)
                /\ Len(stats'.date_patterns)
                      = Len(stats.date_patterns) + Len(chunk_stats'.date_patterns)
          /\ (pc = "SCANNING" /\ pc' = "REPORTING") =>
                current_offset = stats.file_size]_vars

\* C7 witness: REPORTING was reached after several chunks, the last one short.
C7_Witness ==
    /\ pc = "REPORTING"
    /\ chunks_processed >= 2
    /\ Len(chunk) < chunk_size
    /\ current_offset = stats.file_size

IsChunkLastByte(a) == a % chunk_size = chunk_size - 1 \/ a = stats.file_size - 1

\* C9: no text-run finding covers the last byte of a chunk or of the file,
\* and a finding whose run continues a qualifying byte before it starts at
\* the first byte of a chunk: of a run that spans a chunk boundary only the
\* fragment at the start of the following chunk can be reported.
C9_OpenRunDropped ==
    (pc \in {"HEADER_DUMP", "SCANNING", "REPORTING"}) =>
        \A k \in DOMAIN stats.text_regions :
            LET r == stats.text_regions[k]
            IN  /\ \A a \in r.offset..(r.offset + r.length - 1) : ~IsChunkLastByte(a)
                /\ (r.offset > 0 /\ Qualifies(FileByte(r.offset - 1))) =>
                      r.offset % chunk_size = 0

\* C9 witness: a run spans a chunk boundary, its part before the boundary
\* (longer than 4) is not reported, its fragment after the boundary is.
C9_Witness ==
    /\ pc = "REPORTING"
    /\ \E k \in DOMAIN stats.text_regions :
          LET r == stats.text_regions[k]
          IN  /\ r.offset >= 5
              /\ r.offset % chunk_size = 0
              /\ \A a \in (r.offset - 5)..(r.offset - 1) : Qualifies(FileByte(a))
              /\ \A j \in DOMAIN stats.text_regions :
                    stats.text_regions[j].offset >= r.offset

\* a run of more than four zero bytes followed by four alphanumeric bytes,
\* the last four zeros at a tested position i + 1
LongZeroRunAt(i) ==
    /\ i + 1 <= Len(chunk) - 9
    /\ ChunkByte(i) = 0
    /\ SignatureAt(chunk, i + 1)

====
